---- MODULE Spec2Model ----
(***************************************************************************)
(* Model of fd-writer's FdWriter (src/src/lib.rs): a 4096-byte buffer in   *)
(* front of libc::write, flushed when full, when the buffered bytes end in *)
(* a newline, on request and on drop.                                      *)
(*                                                                         *)
(* Byte strings are kept run-length encoded: a sequence of <<byte, count>> *)
(* runs, count >= 1, neighbouring runs holding different bytes.  The       *)
(* encoding is canonical, so equality of encodings is equality of byte     *)
(* strings, and the real capacity and integer widths can be used.          *)
(***************************************************************************)
EXTENDS Integers, Sequences, FiniteSets, TLC

\* const BUFFER_CAPACITY: usize = 4096
BUFFER_CAPACITY == 4096

\* the width of the len field (u16)
U16 == 65536

\* b'\n'
NL == 10

\* a byte of MaybeUninit storage that has never been written
UNINIT == -1

\* ---- bounds of the exploration ----
\* number of public calls (write_data, flush) made on one writer
MaxOps == 3
\* the longest input spans MaxChunks whole buffers and one more byte
MaxChunks == 1

\* ---- run-length encoded byte strings ----
RECURSIVE BLen(_)
BLen(s) == IF s = <<>> THEN 0 ELSE s[1][2] + BLen(Tail(s))

RECURSIVE Take(_, _)
Take(s, k) ==
    IF k <= 0 \/ s = <<>> THEN <<>>
    ELSE IF s[1][2] <= k THEN <<s[1]>> \o Take(Tail(s), k - s[1][2])
    ELSE << <<s[1][1], k>> >>

RECURSIVE Drop(_, _)
Drop(s, k) ==
    IF k <= 0 \/ s = <<>> THEN s
    ELSE IF s[1][2] <= k THEN Drop(Tail(s), k - s[1][2])
    ELSE << <<s[1][1], s[1][2] - k>> >> \o Tail(s)

Cat(s, t) ==
    IF s = <<>> THEN t
    ELSE IF t = <<>> THEN s
    ELSE IF s[Len(s)][1] = t[1][1]
         THEN SubSeq(s, 1, Len(s) - 1)
              \o << <<t[1][1], s[Len(s)][2] + t[1][2]>> >>
              \o Tail(t)
         ELSE s \o t

\* the byte at 0-based index i of s, 0 <= i < BLen(s)
RECURSIVE ByteAt(_, _)
ByteAt(s, i) == IF i < s[1][2] THEN s[1][1] ELSE ByteAt(Tail(s), i - s[1][2])

Rep(b, n) == IF n <= 0 THEN <<>> ELSE << <<b, n>> >>

Min(a, b) == IF a <= b THEN a ELSE b

\* usize::saturating_sub
saturating_sub(a, b) == IF a >= b THEN a - b ELSE 0

\* ---- the inputs of write_data ----
InputLens ==
    {0, 1, BUFFER_CAPACITY - 1, BUFFER_CAPACITY} \cup
    { k * BUFFER_CAPACITY + 1 : k \in 1..MaxChunks }
FillBytes == {97}
LastBytes == {98, NL}
\* n bytes: n - 1 times f, then l
Input(n, f, l) == IF n = 0 THEN <<>> ELSE Cat(Rep(f, n - 1), Rep(l, 1))
Inputs ==
    { Input(n, f, l) : n \in InputLens, f \in FillBytes, l \in LastBytes }
    \cup { Cat(Rep(NL, 1), Rep(98, 1)) }
Fds == {1, 2}
\* what libc::write may return: everything written, fewer bytes, or -1
WriteResults == {"full", "short", "error"}

VARIABLES
    fd,        \* FdWriter.fd
    len,       \* FdWriter.len (u16)
    buffer,    \* FdWriter.buffer, all BUFFER_CAPACITY bytes
    pc,        \* where the writer's user is: idle, inside write_data, panicked, dropped
    data,      \* write_data's `data`, the input not yet copied
    writes,    \* the calls of libc::write so far: [fd, bytes]
    ret,       \* what the last libc::write returned
    appended,  \* history: every input of write_data so far, concatenated
    call,      \* history: the current or last public call and the state it started in
    nops       \* number of public calls so far

vars == <<fd, len, buffer, pc, data, writes, ret, appended, call, nops>>

\* FdWriter::as_slice
as_slice == Take(buffer, len)

\* the bytes handed to libc::write so far, in order
RECURSIVE Flat(_)
Flat(w) == IF w = <<>> THEN <<>> ELSE Cat(w[1].bytes, Flat(Tail(w)))

Written == Flat(writes)

\* what a call has returned: nothing yet or nothing at all, or Ok(val)
NoResult == [tag |-> "none", val |-> 0]
Ok(v) == [tag |-> "Ok", val |-> v]

NoCall ==
    [op |-> "new", arg |-> <<>>, len0 |-> 0, slice0 |-> <<>>, nw0 |-> 0,
     result |-> NoResult]
Entry(op, arg) ==
    [op |-> op, arg |-> arg, len0 |-> len, slice0 |-> Take(buffer, len),
     nw0 |-> Len(writes), result |-> NoResult]

\* FdWriter::new
Init ==
    /\ fd \in Fds
    /\ len = 0
    /\ buffer = Rep(UNINIT, BUFFER_CAPACITY)
    /\ pc = "idle"
    /\ data = <<>>
    /\ writes = <<>>
    /\ ret = "none"
    /\ appended = <<>>
    /\ call = NoCall
    /\ nops = 0

\* inner_flush keeping the unwritten bytes when the write fell short or failed
inner_flush_retry ==
    /\ \E r \in WriteResults :
        /\ ret' = r
        /\ len' = IF r = "full" THEN 0 ELSE len
    /\ writes' = Append(writes, [fd |-> fd, bytes |-> as_slice])
    /\ UNCHANGED buffer

\* inner_flush writing to the standard output instead of self.fd
inner_flush_stdout ==
    /\ \E r \in WriteResults : ret' = r
    /\ writes' = Append(writes, [fd |-> 1, bytes |-> as_slice])
    /\ len' = 0
    /\ UNCHANGED buffer

\* inner_flush without self.len = 0
inner_flush_keep ==
    /\ \E r \in WriteResults : ret' = r
    /\ writes' = Append(writes, [fd |-> fd, bytes |-> as_slice])
    /\ UNCHANGED <<len, buffer>>

\* FdWriter::inner_flush
inner_flush ==
    /\ \E r \in WriteResults : ret' = r
    /\ writes' = Append(writes, [fd |-> fd, bytes |-> as_slice])
    /\ len' = 0
    /\ UNCHANGED buffer

\* flush without the len > 0 test
flush_always == inner_flush

\* FdWriter::flush
flush ==
    IF len > 0 THEN inner_flush ELSE UNCHANGED <<len, buffer, writes, ret>>

\* write_len keeping the last byte of the buffer free
write_len_short(l, d) == Min(saturating_sub(BUFFER_CAPACITY - 1, l), BLen(d))

\* write_len without the min against the room left
write_len_all(l, d) == BLen(d)

\* write_len that forgets the bytes already buffered
write_len_whole(l, d) == Min(BUFFER_CAPACITY, BLen(d))

\* copy_data: the number of bytes copied
write_len(l, d) == Min(saturating_sub(BUFFER_CAPACITY, l), BLen(d))

\* copy_data: ptr::copy_nonoverlapping(data, buffer + len, write_len)
copy_nonoverlapping(buf, l, d, n) ==
    Cat(Cat(Take(buf, l), Take(d, n)), Drop(buf, l + n))

\* copy_data: self.len += write_len as u16
add_len(l, n) == (l + (n % U16)) % U16

\* the remainder not advanced past the copied bytes
rest_same(d, n) == d

\* the remainder taken one byte too far
rest_skip(d, n) == Drop(d, n + 1)

\* copy_data: &data[write_len..]
rest(d, n) == Drop(d, n)

\* write_data is entered with the caller's bytes
WriteData ==
    /\ pc = "idle"
    /\ nops < MaxOps
    /\ \E d \in Inputs :
        /\ data' = d
        /\ appended' = Cat(appended, d)
        /\ call' = Entry("write_data", d)
    /\ pc' = "copy"
    /\ nops' = nops + 1
    /\ UNCHANGED <<fd, len, buffer, writes, ret>>

\* data = self.copy_data(data)
CopyData ==
    /\ pc = "copy"
    /\ LET n == write_len(len, data) IN
        /\ buffer' = copy_nonoverlapping(buffer, len, data, n)
        /\ len' = add_len(len, n)
        /\ data' = rest(data, n)
    /\ pc' = "loop"
    /\ UNCHANGED <<fd, writes, ret, appended, call, nops>>

\* the loop flushing a full buffer as soon as it is full
LoopTestEager ==
    /\ pc = "loop"
    /\ IF BLen(data) = 0
       THEN /\ pc' = "tail"
            /\ IF len = BUFFER_CAPACITY
               THEN flush
               ELSE UNCHANGED <<len, buffer, writes, ret>>
       ELSE /\ flush
            /\ pc' = "copy"
    /\ UNCHANGED <<fd, data, appended, call, nops>>

\* if data.len() == 0 { break } else { self.flush() }
LoopTest ==
    /\ pc = "loop"
    /\ IF BLen(data) = 0
       THEN /\ pc' = "tail"
            /\ UNCHANGED <<len, buffer, writes, ret>>
       ELSE /\ flush
            /\ pc' = "copy"
    /\ UNCHANGED <<fd, data, appended, call, nops>>

\* the newline test looking at the first buffered byte
ends_with_newline_first(s, l) == ByteAt(s, 0) = NL

\* the newline test never succeeding
ends_with_newline_never(s, l) == FALSE

\* the newline test always succeeding
ends_with_newline_any(s, l) == TRUE

\* self.as_slice()[self.len as usize - 1] == b'\n', for l = len > 0
ends_with_newline(s, l) == ByteAt(s, l - 1) = NL

\* if self.as_slice()[self.len as usize - 1] == b'\n' { self.flush() }
\* With len = 0 the subtraction overflows (a panic with overflow checks) or
\* wraps to usize::MAX, an index outside the empty slice (a panic).
TailCheck ==
    /\ pc = "tail"
    /\ IF len = 0
       THEN /\ pc' = "panicked"
            /\ UNCHANGED <<len, buffer, writes, ret>>
       ELSE /\ IF ends_with_newline(as_slice, len)
               THEN flush
               ELSE UNCHANGED <<len, buffer, writes, ret>>
            /\ pc' = IF call.op = "write_data" THEN "idle" ELSE "forwarded"
    /\ UNCHANGED <<fd, data, appended, call, nops>>

\* a call of FdWriter::flush by the user
Flush ==
    /\ pc = "idle"
    /\ nops < MaxOps
    /\ call' = Entry("flush", <<>>)
    /\ flush
    /\ nops' = nops + 1
    /\ UNCHANGED <<fd, pc, data, appended>>

\* a drop that releases the writer without flushing
DropNoFlush ==
    /\ pc \in {"idle", "panicked"}
    /\ call' = [Entry("drop", <<>>) EXCEPT !.arg = IF pc = "panicked" THEN call.arg ELSE <<>>]
    /\ pc' = "dropped"
    /\ UNCHANGED <<fd, len, buffer, writes, ret, data, appended, nops>>

\* a drop that flushes and then gives the descriptor up
DropAndClose ==
    /\ pc \in {"idle", "panicked"}
    /\ call' = [Entry("drop", <<>>) EXCEPT !.arg = IF pc = "panicked" THEN call.arg ELSE <<>>]
    /\ flush
    /\ fd' = -1
    /\ pc' = "dropped"
    /\ UNCHANGED <<data, appended, nops>>

\* Drop for FdWriter: at the end of the owner's scope, or while a panic unwinds
DropWriter ==
    /\ pc \in {"idle", "panicked"}
    /\ call' = [Entry("drop", <<>>) EXCEPT !.arg = IF pc = "panicked" THEN call.arg ELSE <<>>]
    /\ flush
    /\ pc' = "dropped"
    /\ UNCHANGED <<fd, data, appended, nops>>

\* the inputs of the adapters
TextInputs ==
    {<<>>} \cup { Input(n, 97, l) : n \in {1, BUFFER_CAPACITY + 1}, l \in LastBytes }

\* fmt::Write::write_str: self.write_data(text.as_bytes())
WriteStr ==
    /\ pc = "idle"
    /\ nops < MaxOps
    /\ \E d \in TextInputs :
        /\ data' = d
        /\ appended' = Cat(appended, d)
        /\ call' = Entry("write_str", d)
    /\ pc' = "copy"
    /\ nops' = nops + 1
    /\ UNCHANGED <<fd, len, buffer, writes, ret>>

\* std::io::Write::write: self.write_data(buf)
IoWrite ==
    /\ pc = "idle"
    /\ nops < MaxOps
    /\ \E d \in TextInputs :
        /\ data' = d
        /\ appended' = Cat(appended, d)
        /\ call' = Entry("io_write", d)
    /\ pc' = "copy"
    /\ nops' = nops + 1
    /\ UNCHANGED <<fd, len, buffer, writes, ret>>

\* write_data has returned to the adapter: Ok(()) from write_str,
\* Ok(buf.len()) from write
AdapterReturn ==
    /\ pc = "forwarded"
    /\ call' = [call EXCEPT !.result =
                    IF call.op = "write_str" THEN Ok(0) ELSE Ok(BLen(call.arg))]
    /\ pc' = "idle"
    /\ UNCHANGED <<fd, len, buffer, data, writes, ret, appended, nops>>

\* std::io::Write::flush: self.flush(); Ok(())
IoFlush ==
    /\ pc = "idle"
    /\ nops < MaxOps
    /\ call' = [Entry("io_flush", <<>>) EXCEPT !.result = Ok(0)]
    /\ flush
    /\ nops' = nops + 1
    /\ UNCHANGED <<fd, pc, data, appended>>

Next ==
    \/ WriteData
    \/ CopyData
    \/ LoopTest
    \/ TailCheck
    \/ Flush
    \/ DropWriter

Spec == Init /\ [][Next]_vars

\* inputs longer than a u16 can count, and short ones to set the buffer up
LongInputs ==
    { Input(n, 97, 98) : n \in {1, BUFFER_CAPACITY, U16 - 1, U16, U16 + 1} }
    \cup { Input(U16 + 1, 97, NL) }

\* write_data is entered with a long input
WriteDataLong ==
    /\ pc = "idle"
    /\ nops < MaxOps
    /\ \E d \in LongInputs :
        /\ data' = d
        /\ appended' = Cat(appended, d)
        /\ call' = Entry("write_data", d)
    /\ pc' = "copy"
    /\ nops' = nops + 1
    /\ UNCHANGED <<fd, len, buffer, writes, ret>>

LongNext ==
    \/ WriteDataLong
    \/ CopyData
    \/ LoopTest
    \/ TailCheck
    \/ DropWriter

\* write_data runs on the caller's thread: once entered, each of its steps
\* is taken
LongSpec ==
    /\ Init
    /\ [][LongNext]_vars
    /\ WF_vars(CopyData)
    /\ WF_vars(LoopTest)
    /\ WF_vars(TailCheck)

\* the writer used through its fmt::Write and std::io::Write implementations
AdapterNext ==
    \/ WriteStr
    \/ IoWrite
    \/ IoFlush
    \/ AdapterReturn
    \/ CopyData
    \/ LoopTest
    \/ TailCheck
    \/ DropWriter

AdapterSpec == Init /\ [][AdapterNext]_vars

TypeOK ==
    /\ fd \in Fds
    /\ len \in 0..(U16 - 1)
    /\ BLen(buffer) = BUFFER_CAPACITY
    /\ pc \in {"idle", "copy", "loop", "tail", "forwarded", "panicked", "dropped"}
    /\ ret \in WriteResults \cup {"none"}
    /\ nops \in 0..MaxOps

\* ---- properties ----

\* a byte string that is not empty and whose last byte is the newline
EndsNL(s) == s # <<>> /\ s[Len(s)][1] = NL

\* the bytes carried by the write calls after the first n
WrittenSince(n) == Flat(SubSeq(writes, n + 1, Len(writes)))

\* the last call of libc::write
LastWrite == writes[Len(writes)]

\* a public call has ended: it returned or it panicked
Ended(op) == call.op = op /\ pc \in {"idle", "panicked"}

\* C1: order preservation, no loss: the bytes passed to libc::write so far,
\* followed by the valid prefix of the buffer and by the input write_data
\* has not copied yet, are exactly the inputs appended so far, in order;
\* after the drop the bytes written are all the bytes appended.
C1_OrderPreserved ==
    /\ Cat(Cat(Written, Take(buffer, len)), data) = appended
    /\ pc = "dropped" => Written = appended

C1_Witness ==
    /\ pc = "dropped"
    /\ Len(writes) >= 3
    /\ BLen(appended) > BUFFER_CAPACITY
    /\ call.len0 > 0

\* C2: write_data with an empty input returns normally, with len and the
\* write log as they were.
C2_EmptyAppendSafe ==
    (Ended("write_data") /\ call.arg = <<>>) =>
        /\ pc = "idle"
        /\ len = call.len0
        /\ Len(writes) = call.nw0

\* C3: when write_data returns from an input ending in a newline, len is 0
\* and the writes made during the call carry the bytes buffered before it
\* followed by the whole input.
C3_NewlineAutoFlush ==
    (call.op = "write_data" /\ pc = "idle" /\ EndsNL(call.arg)) =>
        /\ len = 0
        /\ Len(writes) > call.nw0
        /\ WrittenSince(call.nw0) = Cat(call.slice0, call.arg)

C3_Witness ==
    /\ call.op = "write_data"
    /\ pc = "idle"
    /\ EndsNL(call.arg)
    /\ call.len0 > 0
    /\ Len(writes) >= call.nw0 + 2

\* C4: the drop makes one write carrying the residual bytes when len > 0 and
\* no write when len = 0, and leaves nothing buffered.
C4_DropFlushes ==
    pc = "dropped" =>
        /\ len = 0
        /\ IF call.len0 > 0
           THEN /\ Len(writes) = call.nw0 + 1
                /\ LastWrite.bytes = call.slice0
                /\ BLen(call.slice0) = call.len0
           ELSE Len(writes) = call.nw0

C4_Witness ==
    /\ pc = "dropped"
    /\ call.len0 > 0
    /\ call.len0 < BUFFER_CAPACITY
    /\ Len(writes) = 1

\* C5: every call of libc::write carries at least 1 and at most
\* BUFFER_CAPACITY bytes.
C5_WriteSize ==
    \A i \in 1..Len(writes) : BLen(writes[i].bytes) \in 1..BUFFER_CAPACITY

C5_Witness ==
    /\ \E i \in 1..Len(writes) : BLen(writes[i].bytes) = BUFFER_CAPACITY
    /\ \E i \in 1..Len(writes) : BLen(writes[i].bytes) = 1
    /\ BLen(appended) > BUFFER_CAPACITY + 1

\* C6: 0 <= len <= BUFFER_CAPACITY in every state, the states inside
\* write_data included.
C6_LenInRange == len \in 0..BUFFER_CAPACITY

C6_Witness ==
    /\ len = BUFFER_CAPACITY
    /\ pc = "loop"
    /\ data # <<>>
    /\ call.len0 > 0

\* C7: an input shorter than the room left and not ending in a newline is
\* added behind the buffered bytes: len grows by its length and no write is
\* made.
C7_Retention ==
    (Ended("write_data")
        /\ BLen(call.arg) < BUFFER_CAPACITY - call.len0
        /\ ~EndsNL(call.arg)) =>
        /\ len = call.len0 + BLen(call.arg)
        /\ Take(buffer, len) = Cat(call.slice0, call.arg)
        /\ Len(writes) = call.nw0

C7_Witness ==
    /\ call.op = "write_data"
    /\ pc = "idle"
    /\ call.arg # <<>>
    /\ call.len0 > 0
    /\ BLen(call.arg) < BUFFER_CAPACITY - call.len0
    /\ ~EndsNL(call.arg)
    /\ len = call.len0 + BLen(call.arg)

\* C8: flush() with len = 0 makes no write and leaves len = 0; flush()
\* always leaves len = 0, so a flush() right after a flush() changes
\* neither the write log nor the writer.
C8_IdempotentFlush ==
    /\ [](call.op = "flush" => len = 0)
    /\ []((call.op = "flush" /\ call.len0 = 0) => Len(writes) = call.nw0)
    /\ [][(call.op = "flush" /\ call'.op = "flush" /\ nops' # nops) =>
            (writes' = writes /\ len' = len /\ buffer' = buffer /\ ret' = ret)]_vars

C8_Witness ==
    /\ call.op = "flush"
    /\ call.len0 = 0
    /\ Len(writes) > 0
    /\ nops >= 2

\* C9: every step that calls libc::write makes exactly one call, with the
\* valid prefix, and leaves len = 0 and the buffer alone, whichever result
\* the call returns.
C9_ResultIgnored ==
    [][Len(writes') # Len(writes) =>
        /\ ret' \in WriteResults
        /\ writes' = Append(writes, [fd |-> fd, bytes |-> Take(buffer, len)])
        /\ len' = 0
        /\ buffer' = buffer]_vars

C9_Witness ==
    /\ ret = "error"
    /\ Len(writes) > 0
    /\ len = 0
    /\ pc = "copy"
    /\ data # <<>>

\* C10: flush() with len > 0 makes exactly one write, of the valid prefix as
\* it was before the call, to the writer's descriptor, and sets len to 0.
C10_FlushContent ==
    (call.op = "flush" /\ call.len0 > 0) =>
        /\ Len(writes) = call.nw0 + 1
        /\ LastWrite = [fd |-> fd, bytes |-> call.slice0]
        /\ BLen(call.slice0) = call.len0
        /\ len = 0

C10_Witness ==
    /\ call.op = "flush"
    /\ call.len0 > 1
    /\ fd = 2
    /\ Len(writes) >= 2

\* ceil(a / b)
CeilDiv(a, b) == (a + b - 1) \div b

\* the number of writes of a full buffer that appending to t bytes in all makes
FullWrites(t) == IF t = 0 THEN 0 ELSE CeilDiv(t, BUFFER_CAPACITY) - 1

\* the payloads of the writes that appending d behind the buffered bytes s
\* makes: the full buffers, then what is left if d ends in a newline
AppendWrites(s, d) ==
    LET t == Cat(s, d)
        k == FullWrites(BLen(t))
        full == [i \in 1..k |-> Take(Drop(t, (i - 1) * BUFFER_CAPACITY), BUFFER_CAPACITY)]
    IN  IF d = <<>> THEN <<>>
        ELSE IF EndsNL(d) THEN Append(full, Drop(t, k * BUFFER_CAPACITY))
        ELSE full

\* the bytes left in the buffer by appending d behind the buffered bytes s
AppendRest(s, d) ==
    LET t == Cat(s, d) IN
        IF d = <<>> THEN s
        ELSE IF EndsNL(d) THEN <<>>
        ELSE Drop(t, FullWrites(BLen(t)) * BUFFER_CAPACITY)

\* the payloads of the write calls after the first n
PayloadsSince(n) == [i \in 1..(Len(writes) - n) |-> writes[n + i].bytes]

\* C11: write_str and io::Write::write end by returning Ok(()) and
\* Ok(buf.len()), having made the writes and left the buffered bytes that
\* write_data makes and leaves for the same bytes; io::Write::flush returns
\* Ok(()) having done what flush() does.
C11_AdapterConformance ==
    /\ (call.op \in {"write_str", "io_write"} /\ pc \in {"idle", "panicked"}) =>
        /\ pc = "idle"
        /\ call.result = IF call.op = "write_str" THEN Ok(0) ELSE Ok(BLen(call.arg))
        /\ PayloadsSince(call.nw0) = AppendWrites(call.slice0, call.arg)
        /\ Take(buffer, len) = AppendRest(call.slice0, call.arg)
    /\ call.op = "io_flush" =>
        /\ call.result = Ok(0)
        /\ len = 0
        /\ PayloadsSince(call.nw0) = IF call.len0 > 0 THEN <<call.slice0>> ELSE <<>>

\* C12: the writer starts with len = 0 and no write made, its descriptor
\* never changes, and every write call targets that descriptor.
C12_DescriptorFrame ==
    /\ (len = 0 /\ writes = <<>>)
    /\ [][fd' = fd]_vars
    /\ [](\A i \in 1..Len(writes) : writes[i].fd = fd)

C12_Witness ==
    /\ pc = "dropped"
    /\ call.len0 > 0
    /\ fd = 2
    /\ Len(writes) >= 3

\* C13: an input that fills the buffer exactly and does not end in a
\* newline makes no write and leaves len = BUFFER_CAPACITY; the next
\* non-empty write_data copies nothing of its input before it has written
\* those BUFFER_CAPACITY bytes, and makes no other write if its input fits
\* and does not end in a newline.
C13_DeferredFlush ==
    /\ (Ended("write_data")
            /\ call.arg # <<>>
            /\ call.len0 + BLen(call.arg) = BUFFER_CAPACITY
            /\ ~EndsNL(call.arg)) =>
        /\ len = BUFFER_CAPACITY
        /\ Len(writes) = call.nw0
    /\ (call.op = "write_data" /\ call.len0 = BUFFER_CAPACITY /\ call.arg # <<>>) =>
        /\ IF Len(writes) = call.nw0
           THEN /\ data = call.arg
                /\ len = BUFFER_CAPACITY
                /\ pc \in {"copy", "loop"}
           ELSE /\ writes[call.nw0 + 1].bytes = call.slice0
                /\ BLen(call.slice0) = BUFFER_CAPACITY
        /\ (pc = "idle" /\ BLen(call.arg) <= BUFFER_CAPACITY /\ ~EndsNL(call.arg)) =>
            /\ Len(writes) = call.nw0 + 1
            /\ len = BLen(call.arg)
            /\ Take(buffer, len) = call.arg

C13_Witness ==
    /\ call.op = "write_data"
    /\ pc = "idle"
    /\ call.len0 = BUFFER_CAPACITY
    /\ call.arg # <<>>
    /\ BLen(call.arg) <= BUFFER_CAPACITY
    /\ ~EndsNL(call.arg)
    /\ Len(writes) = call.nw0 + 1

\* C14: an input of at least one byte that ends in a newline and fits in
\* the room left makes exactly one write, of the buffered bytes followed by
\* the input, and write_data returns with len = 0.
C14_SingleWrite ==
    (call.op = "write_data" /\ pc = "idle"
        /\ EndsNL(call.arg)
        /\ call.len0 + BLen(call.arg) <= BUFFER_CAPACITY) =>
        /\ Len(writes) = call.nw0 + 1
        /\ LastWrite.bytes = Cat(call.slice0, call.arg)
        /\ len = 0

C14_Witness ==
    /\ call.op = "write_data"
    /\ pc = "idle"
    /\ EndsNL(call.arg)
    /\ BLen(call.arg) > 1
    /\ call.len0 > 0
    /\ call.len0 + BLen(call.arg) = BUFFER_CAPACITY

\* C15: appending n >= 1 bytes to L buffered bytes makes
\* ceil((L + n) / BUFFER_CAPACITY) - 1 writes of BUFFER_CAPACITY bytes each
\* and then one write of the bytes left exactly when the input ends in a
\* newline; a write made by the loop always finds the buffer full.
C15_ChunkCount ==
    /\ []((call.op = "write_data" /\ pc = "idle" /\ call.arg # <<>>) =>
            LET t == call.len0 + BLen(call.arg)
                k == CeilDiv(t, BUFFER_CAPACITY) - 1
                left == t - BUFFER_CAPACITY * k
            IN  /\ \A i \in 1..k :
                    /\ call.nw0 + i <= Len(writes)
                    /\ BLen(writes[call.nw0 + i].bytes) = BUFFER_CAPACITY
                /\ IF EndsNL(call.arg)
                   THEN /\ Len(writes) = call.nw0 + k + 1
                        /\ BLen(LastWrite.bytes) = left
                        /\ len = 0
                   ELSE /\ Len(writes) = call.nw0 + k
                        /\ len = left)
    /\ [][(pc = "loop" /\ Len(writes') # Len(writes)) => len = BUFFER_CAPACITY]_vars

C15_Witness ==
    /\ call.op = "write_data"
    /\ pc = "idle"
    /\ EndsNL(call.arg)
    /\ call.len0 > 0
    /\ Len(writes) = call.nw0 + 3
    /\ BLen(LastWrite.bytes) < BUFFER_CAPACITY

\* C17: between public calls the buffered bytes never end in a newline, so
\* an empty input given to write_data with bytes buffered makes no write.
C17_NoNewlineAtRest ==
    /\ pc = "idle" => (len = 0 \/ ByteAt(Take(buffer, len), len - 1) # NL)
    /\ (Ended("write_data") /\ call.arg = <<>> /\ call.len0 > 0) =>
        /\ pc = "idle"
        /\ Len(writes) = call.nw0
        /\ len = call.len0

C17_Witness ==
    /\ call.op = "write_data"
    /\ pc = "idle"
    /\ call.arg = <<>>
    /\ call.len0 > 0
    /\ Len(writes) > 0

C18_LenArithmetic ==
    pc = "copy" =>
        LET n == write_len(len, data) IN
            /\ n <= BUFFER_CAPACITY - len
            /\ n % U16 = n
            /\ len + n <= BUFFER_CAPACITY
            /\ add_len(len, n) = len + n

C18_Witness ==
    /\ pc = "copy"
    /\ BLen(data) > U16 - 1
    /\ len > 0
    /\ call.len0 > 0
====
